---- MODULE Spec2Model ----
(***************************************************************************)
(* The client-side streaming state machine of the procurement analysis     *)
(* frontend: the useProcurementAnalysis hook                               *)
(* (frontend/hooks/use-procurement-analysis.ts, lines 1-407) and the       *)
(* transport client it drives (frontend/lib/api-client.ts).                *)
(*                                                                         *)
(* JavaScript runs the hook on one event loop: every handler below runs to *)
(* its next network await without interleaving, so one action is one       *)
(* handler run (or one continuation of an async function).                 *)
(***************************************************************************)
EXTENDS Integers, Sequences, FiniteSets, TLC

\* ---------------------------------------------------------------- bounds
\* uploadFiles calls that are accepted (each starts one upload request).
MaxUploads == 2
\* sendChatMessage calls that are accepted (each starts one chat request).
MaxTurns == 2
\* frames one chat response stream dispatches before it ends.
MaxFrames == 3
\* submitReview requests (generateReport / declineReport).
MaxReviews == 1
\* distinct thinking_log ids the backend emits.
MaxLogId == 2

\* ---------------------------------------------------------------- values
\* null, and a non-null value x, of a nullable cell.
Null == <<>>
Some(x) == <<x>>

UploadIds == 1..MaxUploads
TurnIds == 1..MaxTurns
ReviewIds == 1..MaxReviews

\* thread_id the backend returns for the k-th upload request (a fresh id each).
ThreadIdOf(k) == <<"thread", k>>
\* message_id the backend assigns to the t-th chat request (a fresh id each).
MessageIdOf(t) == <<"msg", t>>
\* `chat-${Date.now()}-user`
UserChatIdOf(t) == <<"chat-user", t>>

\* Date.now() is read as one symbolic clock value; server timestamps are another.
Now == "Date.now"
ServerTimestamp == "T"

\* thinking_log payloads: one per id, and the first id also redelivered with its
\* status changed.
ThinkingLogEvents ==
  [id : 1..MaxLogId, status : {"active"}] \cup {[id |-> 1, status |-> "complete"]}

\* verdict payloads; a finding is given by its category (the second has none).
Verdicts ==
  { [status |-> "FAIL", confidence |-> 40, findings |-> <<"Budget", "", "Legal">>] }

\* chat_delta texts: empty, whitespace only, and visible text.
Deltas == {"", " ", "Be"}
\* String.prototype.trim on the delta texts of the model.
Trim(s) == IF s \in {"", " "} THEN "" ELSE s
FinalResponse == "Because of X"

\* ---------------------------------------------------------------- state
VARIABLES
  ui,                      \* the hook's useState cells (lines 45-55)
  closureInFlight,         \* isChatInFlight as captured by the current sendChatMessage callback
  mounted,                 \* FALSE after the unmount cleanup ran
  eventSourceRef,          \* useRef: id of the stream held, or Null
  threadIdRef,             \* useRef
  chatAbortControllerRef,  \* useRef: turn whose AbortController is held, or Null
  activeChatMessageIdRef,  \* useRef
  uploads,                 \* upload requests: "none" | "pending" | "done"
  es,                      \* EventSource objects, one per successful upload
  reviews,                 \* review requests
  turns,                   \* chat requests (one per accepted sendChatMessage)
  last,                    \* the handler that ran last (history)
  dec                      \* one run of the chat stream decoder (api-client.ts 259-342)

vars == <<ui, closureInFlight, mounted, eventSourceRef, threadIdRef,
          chatAbortControllerRef, activeChatMessageIdRef, uploads, es, reviews,
          turns, last, dec>>

refs == <<eventSourceRef, threadIdRef, chatAbortControllerRef, activeChatMessageIdRef>>
procs == <<uploads, es, reviews, turns>>

\* The observed state cells, by their source names.
state == ui.state
thinkingLogs == ui.thinkingLogs
verdictData == ui.verdictData
messages == ui.messages
chatMessages == ui.chatMessages
gammaLink == ui.gammaLink
error == ui.error
isChatLoading == ui.isChatLoading
isChatInFlight == ui.isChatInFlight

InitialUi ==
  [ state |-> "idle", thinkingLogs |-> <<>>, verdictData |-> Null, messages |-> <<>>,
    chatMessages |-> <<>>, gammaLink |-> Null, error |-> Null,
    isChatLoading |-> FALSE, isChatInFlight |-> FALSE ]

\* A chat request: its status, the handler's streamFinished flag, the frames dispatched,
\* and (history) whether a chat_complete or error frame was among them and how the
\* turn ended.
NoTurn ==
  [ status |-> "none", streamFinished |-> FALSE, frames |-> 0, terminalFrame |-> FALSE,
    finalized |-> FALSE, erred |-> FALSE, cancelled |-> FALSE ]

\* readyState of an EventSource, and whether the backend has sent its verdict event
\* (the backend sends one verdict per analysis).
NoStream == [ status |-> "none", verdictSent |-> FALSE ]

NoReview == [ status |-> "none", generate |-> FALSE ]
DoneReview == [ status |-> "done", generate |-> FALSE ]

\* The history: the handler that ran last, a note on the case it met, and whether a
\* reset has run with no uploadFiles call after it.
Did(op, note, afterReset) == [op |-> op, note |-> note, afterReset |-> afterReset]

\* No decoder run: nothing read, nothing buffered, nothing dispatched.
IdleDecoder ==
  [ input |-> <<>>, pos |-> 0, pending |-> FALSE, buffer |-> <<>>,
    calls |-> <<>>, outcome |-> "resolved", cuts |-> {} ]

\* The hook after its first render.
InitHook ==
  /\ ui = InitialUi
  /\ closureInFlight = FALSE
  /\ mounted = TRUE
  /\ eventSourceRef = Null
  /\ threadIdRef = Null
  /\ chatAbortControllerRef = Null
  /\ activeChatMessageIdRef = Null
  /\ uploads = [k \in UploadIds |-> "none"]
  /\ es = [k \in UploadIds |-> NoStream]
  /\ reviews = [r \in ReviewIds |-> NoReview]
  /\ turns = [t \in TurnIds |-> NoTurn]
  /\ last = Did("init", "", FALSE)

Init == InitHook /\ dec = IdleDecoder

\* The continuation of an aborted request is a microtask: it runs before any other
\* handler does.
NoMicrotask == \A t \in TurnIds : turns[t].status # "aborting"

\* The history after a run of `op`; the hook's handlers receive decoded events and
\* never touch a decoder run.
Recorded(op, note) ==
  /\ last' = Did(op, note, IF op = "reset" THEN TRUE
                           ELSE IF op = "uploadFiles" THEN FALSE
                           ELSE last.afterReset)
  /\ dec' = dec

\* A handler of the hook ran (a task of the event loop): the history says which.
Ran(op, note) == NoMicrotask /\ Recorded(op, note)

\* A setState call: React drops updates of an unmounted component.
Commit(new) == IF mounted THEN new ELSE ui

\* ------------------------------------------------- closing the two streams
\* closeEventSource: the stream map after closing the one the ref holds.
ClosedHeld(streams) ==
  IF eventSourceRef # Null
    THEN [streams EXCEPT ![eventSourceRef[1]].status = "closed"]
    ELSE streams

\* closeChatStream: the chat requests after aborting the one whose controller is held.
\* abort() rejects the pending fetch/read with an AbortError; the catch block returns
\* on it and the finally block clears the (already cleared) controller ref, in the
\* microtask checkpoint that follows the caller, so the request ends in the same step.
\* A request that is reading the body of a non-ok response ("failing") is left
\* "aborting": its continuation changes state and is a step of its own
\* (OnChatAbortedFailing).
AbortedHeld(ts) ==
  IF chatAbortControllerRef = Null THEN ts
  ELSE IF ts[chatAbortControllerRef[1]].status = "open"
    THEN [ts EXCEPT ![chatAbortControllerRef[1]].status = "ended",
                    ![chatAbortControllerRef[1]].cancelled = TRUE]
  ELSE IF ts[chatAbortControllerRef[1]].status = "failing"
    THEN [ts EXCEPT ![chatAbortControllerRef[1]].status = "aborting",
                    ![chatAbortControllerRef[1]].cancelled = TRUE]
  ELSE ts

\* closeChatStream's two setState calls.
ChatFlagsCleared(u) == [u EXCEPT !.isChatLoading = FALSE, !.isChatInFlight = FALSE]

\* ------------------------------------------------------------------ reset
\* reset without its setError(null).
ResetUiKeepingError(u) ==
  [ChatFlagsCleared(u) EXCEPT
     !.state = "idle", !.thinkingLogs = <<>>, !.verdictData = Null, !.messages = <<>>,
     !.chatMessages = <<>>, !.gammaLink = Null]

ResetUi(u) ==
  [ChatFlagsCleared(u) EXCEPT
     !.state = "idle", !.thinkingLogs = <<>>, !.verdictData = Null, !.messages = <<>>,
     !.chatMessages = <<>>, !.gammaLink = Null, !.error = Null]

Reset ==
  /\ mounted
  /\ es' = ClosedHeld(es)
  /\ eventSourceRef' = Null
  /\ turns' = AbortedHeld(turns)
  /\ chatAbortControllerRef' = Null
  /\ activeChatMessageIdRef' = Null
  /\ ui' = Commit(ResetUi(ui))
  /\ threadIdRef' = Null
  /\ Ran("reset", IF eventSourceRef # Null /\ es[eventSourceRef[1]].status = "open"
                    THEN "stream open" ELSE "")
  /\ UNCHANGED <<closureInFlight, mounted, uploads, reviews>>

\* The useEffect cleanup: closeEventSource(); closeChatStream().
Unmount ==
  /\ mounted
  /\ mounted' = FALSE
  /\ es' = ClosedHeld(es)
  /\ eventSourceRef' = Null
  /\ turns' = AbortedHeld(turns)
  /\ chatAbortControllerRef' = Null
  /\ activeChatMessageIdRef' = Null
  /\ Ran("unmount", "")
  /\ UNCHANGED <<ui, closureInFlight, threadIdRef, uploads, reviews>>

\* A re-render: sendChatMessage is re-created with the committed isChatInFlight.
Render ==
  /\ mounted
  /\ closureInFlight # ui.isChatInFlight
  /\ closureInFlight' = ui.isChatInFlight
  /\ Ran("render", "")
  /\ UNCHANGED <<ui, mounted, refs, procs>>

\* ----------------------------------------------------------- uploadFiles
FileCounts == 0..1

UserUploadMessage(n) ==
  [ type |-> "user", timestamp |-> Now,
    content |-> IF n > 1 THEN "Please analyze these procurement documents"
                         ELSE "Please analyze this procurement document",
    more |-> n - 1 ]

FreeUploads == {k \in UploadIds : uploads[k] = "none"}
NextUpload == CHOOSE k \in FreeUploads : \A j \in FreeUploads : k <= j

\* uploadFiles without its check for an empty list.
UploadStartUiUnchecked(u, n) ==
  [u EXCEPT !.error = Null, !.messages = <<UserUploadMessage(n)>>, !.state = "uploading"]

\* uploadFiles up to `await apiClient.uploadDocuments(files)`.
UploadStartUi(u, n) ==
  IF n = 0
    THEN [u EXCEPT !.error = Some("No PDF files selected")]
    ELSE [u EXCEPT !.error = Null, !.messages = <<UserUploadMessage(n)>>,
                   !.state = "uploading"]

UploadFiles(n) ==
  /\ mounted
  /\ n = 0 \/ FreeUploads # {}
  /\ ui' = Commit(UploadStartUi(ui, n))
  /\ uploads' = IF n = 0 THEN uploads ELSE [uploads EXCEPT ![NextUpload] = "pending"]
  /\ Ran("uploadFiles", IF n = 0 THEN "no files" ELSE "started")
  /\ UNCHANGED <<closureInFlight, mounted, refs, es, reviews, turns>>

\* The continuation after the upload response: lines 126-189.
UploadSucceeded(k) ==
  /\ uploads[k] = "pending"
  /\ uploads' = [uploads EXCEPT ![k] = "done"]
  /\ threadIdRef' = ThreadIdOf(k)
  /\ ui' = Commit([ui EXCEPT !.state = "thinking"])
  /\ es' = [es EXCEPT ![k].status = "open"]
  /\ eventSourceRef' = Some(k)
  /\ Ran("upload ok", "")
  /\ UNCHANGED <<closureInFlight, mounted, chatAbortControllerRef,
                 activeChatMessageIdRef, reviews, turns>>

\* The catch block of uploadFiles: lines 190-194.
UploadErrors == {"HTTP 500: Internal Server Error"}

\* The catch block without its setState('idle').
UploadFailedKeepingState(u, msg) == [u EXCEPT !.error = Some(msg)]

UploadFailedUi(u, msg) == [u EXCEPT !.error = Some(msg), !.state = "idle"]

UploadFailed(k, msg) ==
  /\ uploads[k] = "pending"
  /\ uploads' = [uploads EXCEPT ![k] = "done"]
  /\ ui' = Commit(UploadFailedUi(ui, msg))
  /\ Ran("upload failed", IF state = "uploading" THEN "while uploading" ELSE "")
  /\ UNCHANGED <<closureInFlight, mounted, refs, es, reviews, turns>>

\* ------------------------------------------------- analysis stream events
\* The updater of setThinkingLogs: lines 144-159.
HasLogId(logs, id) == \E i \in 1..Len(logs) : logs[i].id = id

\* The updater without its duplicate check.
AppendEveryLog(prev, log) == Append(prev, log)

\* The updater putting a new entry first.
PrependThinkingLog(prev, log) ==
  IF HasLogId(prev, log.id) THEN prev ELSE <<log>> \o prev

AppendThinkingLog(prev, log) ==
  IF HasLogId(prev, log.id) THEN prev ELSE Append(prev, log)

OnThinkingLog(k, log) ==
  /\ es[k].status = "open"
  /\ ui' = Commit([ui EXCEPT !.thinkingLogs = AppendThinkingLog(@, log)])
  /\ Ran("thinking_log", IF HasLogId(ui.thinkingLogs, log.id) THEN "duplicate" ELSE "new")
  /\ UNCHANGED <<closureInFlight, mounted, refs, procs>>

\* buildVerdictIntroMessage: the slots of the template string.
FirstTwo(s) == SubSeq(s, 1, IF Len(s) < 2 THEN Len(s) ELSE 2)
\* The message built from all findings (no slice(0, 2)).
buildVerdictIntroFromAllFindings(verdict) ==
  [ status |-> verdict.status, confidence |-> verdict.confidence,
    topCategories |-> SelectSeq(verdict.findings, LAMBDA c : c # "") ]

buildVerdictIntroMessage(verdict) ==
  [ status |-> verdict.status, confidence |-> verdict.confidence,
    topCategories |-> SelectSeq(FirstTwo(verdict.findings), LAMBDA c : c # "") ]

VerdictIntro(k, verdict) ==
  [ id |-> <<"verdict-intro", k>>, role |-> "assistant",
    content |-> buildVerdictIntroMessage(verdict), timestamp |-> Now ]

OnVerdictUi(u, k, verdict) ==
  [u EXCEPT !.verdictData = Some(verdict), !.state = "verdict",
            !.chatMessages = Append(@, VerdictIntro(k, verdict))]

OnVerdict(k, verdict) ==
  /\ es[k].status = "open"
  /\ ~es[k].verdictSent
  /\ ui' = Commit(OnVerdictUi(ui, k, verdict))
  /\ es' = [es EXCEPT ![k].verdictSent = TRUE]
  /\ Ran("verdict", "")
  /\ UNCHANGED <<closureInFlight, mounted, refs, uploads, reviews, turns>>

\* The `complete` listener: callbacks.onComplete() (closeEventSource), then
\* eventSource.close().
OnStreamComplete(k) ==
  /\ es[k].status = "open"
  /\ es' = [ClosedHeld(es) EXCEPT ![k].status = "closed"]
  /\ eventSourceRef' = Null
  /\ Ran("complete", "")
  /\ UNCHANGED <<ui, closureInFlight, mounted, threadIdRef, chatAbortControllerRef,
                 activeChatMessageIdRef, uploads, reviews, turns>>

Links == {"https://gamma.app/docs/1"}

OnGammaLink(k, link) ==
  /\ es[k].status = "open"
  /\ ui' = Commit([ui EXCEPT !.gammaLink = Some(link)])
  /\ Ran("gamma_link", "")
  /\ UNCHANGED <<closureInFlight, mounted, refs, procs>>

\* An event whose data JSON.parse rejects: the listener's catch logs it and returns.
MalformedEvents == {"thinking_log", "verdict", "complete", "gamma_link"}

OnMalformedEvent(k, name) ==
  /\ es[k].status = "open"
  /\ Ran("malformed", "")
  /\ UNCHANGED <<ui, closureInFlight, mounted, refs, procs>>

\* The hook's onError: lines 181-185.
OnStreamErrorUi(u, msg) == [u EXCEPT !.error = Some(msg), !.state = "idle"]

\* An event of type `error` on the EventSource runs both the `error` listener
\* (lines 154-173) and the onerror handler (lines 175-181), in that order.
StreamErrorKinds == {"server message", "server no message", "malformed", "connection"}
ErrorListenerMessage(kind) ==
  CASE kind = "server message" -> "Analysis failed"
    [] kind = "server no message" -> "Stream error occurred"
    [] OTHER -> "Connection error occurred"

OnStreamError(k, kind) ==
  /\ es[k].status = "open"
  /\ ui' = Commit(OnStreamErrorUi(OnStreamErrorUi(ui, ErrorListenerMessage(kind)),
                                  "Connection to server lost"))
  /\ es' = [ClosedHeld(es) EXCEPT ![k].status = "closed"]
  /\ eventSourceRef' = Null
  /\ Ran("stream error", "")
  /\ UNCHANGED <<closureInFlight, mounted, threadIdRef, chatAbortControllerRef,
                 activeChatMessageIdRef, uploads, reviews, turns>>

\* ------------------------------------------- generateReport / declineReport
FreeReviews == {r \in ReviewIds : reviews[r].status = "none"}
NextReview == CHOOSE r \in FreeReviews : \A j \in FreeReviews : r <= j

\* The threadId guard that also returns to `idle`.
NoSessionToIdle(u) == [u EXCEPT !.error = Some("No analysis session found"), !.state = "idle"]

NoSessionUi(u) == [u EXCEPT !.error = Some("No analysis session found")]

\* generateReport / declineReport up to `await apiClient.submitReview(...)`.
ReviewStartUi(u, generate) == IF generate THEN [u EXCEPT !.state = "generating"] ELSE u

SubmitReview(generate) ==
  /\ mounted
  /\ threadIdRef = Null \/ FreeReviews # {}
  /\ IF threadIdRef = Null
       THEN /\ ui' = Commit(NoSessionUi(ui))
            /\ reviews' = reviews
            /\ Ran("submitReview", "no session")
       ELSE /\ ui' = Commit(ReviewStartUi(ui, generate))
            /\ reviews' = [reviews EXCEPT ![NextReview] =
                             [status |-> "pending", generate |-> generate]]
            /\ Ran("submitReview", "started")
  /\ UNCHANGED <<closureInFlight, mounted, refs, uploads, es, turns>>

generateReport == SubmitReview(TRUE)
declineReport == SubmitReview(FALSE)

\* The continuation after the review response: lines 210-214 and 231.
\* The continuation that drops the link of the response.
ReviewSucceededDroppingLink(u, generate, link) == [u EXCEPT !.state = "complete"]

ReviewSucceededUi(u, generate, link) ==
  [u EXCEPT !.gammaLink = IF generate /\ link # Null THEN link ELSE @,
            !.state = "complete"]

ReviewSucceeded(r, link) ==
  /\ reviews[r].status = "pending"
  /\ reviews' = [reviews EXCEPT ![r] = DoneReview]
  /\ ui' = Commit(ReviewSucceededUi(ui, reviews[r].generate, link))
  /\ Ran("review ok", IF reviews[r].generate THEN "generate" ELSE "decline")
  /\ UNCHANGED <<closureInFlight, mounted, refs, uploads, es, turns>>

\* The catch blocks: lines 215-219 and 232-235.
ReviewErrors == {"HTTP 500: Internal Server Error"}

\* The catch blocks both going back to `verdict`.
ReviewFailedToVerdict(u, generate, msg) == [u EXCEPT !.error = Some(msg), !.state = "verdict"]

\* The catch block of generateReport without its setState('verdict').
ReviewFailedKeepingState(u, generate, msg) == [u EXCEPT !.error = Some(msg)]

ReviewFailedUi(u, generate, msg) ==
  [u EXCEPT !.error = Some(msg), !.state = IF generate THEN "verdict" ELSE @]

ReviewFailed(r, msg) ==
  /\ reviews[r].status = "pending"
  /\ reviews' = [reviews EXCEPT ![r] = DoneReview]
  /\ ui' = Commit(ReviewFailedUi(ui, reviews[r].generate, msg))
  /\ Ran("review failed", IF ~reviews[r].generate THEN "decline"
                          ELSE IF state = "generating" THEN "while generating"
                          ELSE "generate")
  /\ UNCHANGED <<closureInFlight, mounted, refs, uploads, es, turns>>

\* -------------------------------------------------------- sendChatMessage
FreeTurns == {t \in TurnIds : turns[t].status = "none"}
NextTurn == CHOOSE t \in FreeTurns : \A j \in FreeTurns : t <= j
\* Requests started and not yet resolved or rejected.
OpenTurns == {t \in TurnIds : turns[t].status \in {"open", "failing", "aborting"}}

ChatTexts == {"why?"}

UserChatMessage(t, text) ==
  [ id |-> UserChatIdOf(t), role |-> "user", content |-> text, timestamp |-> Now ]

\* The busy guard of line 249, on the value the callback closed over.
ChatBusy(inFlightSeen) == inFlightSeen

\* An accepted call that also discards the verdict.
SendChatClearingVerdict(u, t, text) ==
  [u EXCEPT !.error = Null, !.chatMessages = Append(@, UserChatMessage(t, text)),
            !.isChatLoading = TRUE, !.isChatInFlight = TRUE, !.verdictData = Null]

\* Lines 254-267: the state updates of an accepted call.
SendChatUi(u, t, text) ==
  [u EXCEPT !.error = Null, !.chatMessages = Append(@, UserChatMessage(t, text)),
            !.isChatLoading = TRUE, !.isChatInFlight = TRUE]

sendChatMessage(text) ==
  /\ mounted
  /\ threadIdRef = Null \/ ChatBusy(closureInFlight) \/ FreeTurns # {}
  /\ IF threadIdRef = Null
       THEN /\ ui' = Commit(NoSessionUi(ui))
            /\ Ran("sendChatMessage", "no session")
            /\ UNCHANGED <<turns, chatAbortControllerRef>>
       ELSE IF ChatBusy(closureInFlight)
         THEN /\ Ran("sendChatMessage", "busy")
              /\ UNCHANGED <<ui, turns, chatAbortControllerRef>>
         ELSE /\ ui' = Commit(SendChatUi(ui, NextTurn, text))
              /\ turns' = [turns EXCEPT ![NextTurn].status = "open"]
              /\ chatAbortControllerRef' = Some(NextTurn)
              /\ Ran("sendChatMessage", "started")
  /\ UNCHANGED <<closureInFlight, mounted, eventSourceRef, threadIdRef,
                 activeChatMessageIdRef, uploads, es, reviews>>

\* A frame can be dispatched to a request that is open, while the stream lasts.
CanDispatch(t) == turns[t].status = "open" /\ turns[t].frames < MaxFrames

Dispatched(ts, t) == [ts EXCEPT ![t].frames = @ + 1]

\* onStart: lines 277-279.
OnChatStart(t) ==
  /\ CanDispatch(t)
  /\ activeChatMessageIdRef' = MessageIdOf(t)
  /\ turns' = Dispatched(turns, t)
  /\ Ran("chat_start", "")
  /\ UNCHANGED <<ui, closureInFlight, mounted, eventSourceRef, threadIdRef,
                 chatAbortControllerRef, uploads, es, reviews>>

HasChatId(msgs, id) == \E i \in 1..Len(msgs) : msgs[i].id = id

\* The handlers without their id guard.
NeverStale(active, message_id) == FALSE

\* The id guard of onDelta and onComplete: lines 281 and 313.
IsStale(active, message_id) == active # message_id

\* An updater that creates the entry from whatever the first delta carries.
OnDeltaAlwaysCreating(prev, message_id, delta) ==
  IF ~HasChatId(prev, message_id)
    THEN Append(prev, [ id |-> message_id, role |-> "assistant",
                        content |-> delta, timestamp |-> Now ])
    ELSE [i \in 1..Len(prev) |->
            IF prev[i].id = message_id
              THEN [prev[i] EXCEPT !.content = @ \o delta]
              ELSE prev[i]]

\* The updater of onDelta: lines 285-310.
OnDeltaMessages(prev, message_id, delta) ==
  IF ~HasChatId(prev, message_id)
    THEN IF Trim(delta) = ""
           THEN prev
           ELSE Append(prev, [ id |-> message_id, role |-> "assistant",
                               content |-> delta, timestamp |-> Now ])
    ELSE [i \in 1..Len(prev) |->
            IF prev[i].id = message_id
              THEN [prev[i] EXCEPT !.content = @ \o delta]
              ELSE prev[i]]

OnDeltaUi(u, message_id, delta) ==
  [u EXCEPT !.chatMessages = OnDeltaMessages(@, message_id, delta),
            !.isChatLoading =
               IF ~HasChatId(u.chatMessages, message_id) /\ Trim(delta) = ""
                 THEN @ ELSE FALSE]

OnChatDelta(t, delta) ==
  /\ CanDispatch(t)
  /\ turns' = Dispatched(turns, t)
  /\ ui' = IF IsStale(activeChatMessageIdRef, MessageIdOf(t))
             THEN ui
             ELSE Commit(OnDeltaUi(ui, MessageIdOf(t), delta))
  /\ Ran("chat_delta", IF IsStale(activeChatMessageIdRef, MessageIdOf(t)) THEN "stale" ELSE "live")
  /\ UNCHANGED <<closureInFlight, mounted, refs, uploads, es, reviews>>

\* onComplete that creates a missing entry but keeps the accumulated deltas of an
\* existing one.
OnCompleteKeepingDeltas(prev, message_id, response, timestamp) ==
  IF ~HasChatId(prev, message_id)
    THEN Append(prev, [ id |-> message_id, role |-> "assistant",
                        content |-> response, timestamp |-> timestamp ])
    ELSE [i \in 1..Len(prev) |->
            IF prev[i].id = message_id
              THEN [prev[i] EXCEPT !.timestamp = timestamp]
              ELSE prev[i]]

\* The updater of onComplete: lines 317-337.
OnCompleteMessages(prev, message_id, response, timestamp) ==
  IF ~HasChatId(prev, message_id)
    THEN Append(prev, [ id |-> message_id, role |-> "assistant",
                        content |-> response, timestamp |-> timestamp ])
    ELSE [i \in 1..Len(prev) |->
            IF prev[i].id = message_id
              THEN [prev[i] EXCEPT !.content = response, !.timestamp = timestamp]
              ELSE prev[i]]

OnCompleteUi(u, message_id, response, timestamp) ==
  ChatFlagsCleared(
    [u EXCEPT !.chatMessages = OnCompleteMessages(@, message_id, response, timestamp)])

OnChatComplete(t) ==
  /\ CanDispatch(t)
  /\ IF IsStale(activeChatMessageIdRef, MessageIdOf(t))
       THEN /\ turns' = [Dispatched(turns, t) EXCEPT ![t].terminalFrame = TRUE]
            /\ Ran("chat_complete", "stale")
            /\ UNCHANGED <<ui, activeChatMessageIdRef>>
       ELSE /\ ui' = Commit(OnCompleteUi(ui, MessageIdOf(t), FinalResponse, ServerTimestamp))
            /\ turns' = [Dispatched(turns, t) EXCEPT ![t].streamFinished = TRUE,
                                                     ![t].terminalFrame = TRUE,
                                                     ![t].finalized = TRUE]
            /\ activeChatMessageIdRef' = Null
            /\ Ran("chat_complete", IF HasChatId(ui.chatMessages, MessageIdOf(t))
                                      THEN "replaced" ELSE "created")
  /\ UNCHANGED <<closureInFlight, mounted, eventSourceRef, threadIdRef,
                 chatAbortControllerRef, uploads, es, reviews>>

\* An error path that takes the turn's last transcript entry back.
ChatErrorRollingBack(u, msg) ==
  ChatFlagsCleared([u EXCEPT !.error = Some(msg),
                             !.chatMessages = IF @ = <<>> THEN @ ELSE SubSeq(@, 1, Len(@) - 1)])

\* What the hook does when the request fails: onError (lines 344-350) and the
\* catch block for an error that is no AbortError (lines 364-369) set the same cells.
ChatErrorUi(u, msg) == ChatFlagsCleared([u EXCEPT !.error = Some(msg)])

\* An `error` frame, or a frame whose data JSON.parse rejects: callbacks.onError(msg),
\* then the APIError thrown by processSSEEvent reaches the catch block, then finally.
ChatFrameErrors == {"Rate limited", "Failed to parse stream payload"}

\* An error frame whose error is reported while the stream goes on being read.
OnChatErrorFrameNotThrowing(t, msg) ==
  /\ CanDispatch(t)
  /\ ui' = Commit(ChatErrorUi(ui, msg))
  /\ turns' = [turns EXCEPT ![t].frames = @ + 1, ![t].terminalFrame = TRUE,
                            ![t].erred = TRUE]
  /\ activeChatMessageIdRef' = Null
  /\ Ran("chat error frame", "")
  /\ UNCHANGED <<closureInFlight, mounted, eventSourceRef, threadIdRef,
                 chatAbortControllerRef, uploads, es, reviews>>

OnChatErrorFrame(t, msg) ==
  /\ CanDispatch(t)
  /\ ui' = Commit(ChatErrorUi(ChatErrorUi(ui, msg), msg))
  /\ turns' = [turns EXCEPT ![t].status = "ended", ![t].frames = @ + 1,
                            ![t].streamFinished = TRUE, ![t].terminalFrame = TRUE,
                            ![t].erred = TRUE]
  /\ activeChatMessageIdRef' = Null
  /\ chatAbortControllerRef' = Null
  /\ Ran("chat error frame", "")
  /\ UNCHANGED <<closureInFlight, mounted, eventSourceRef, threadIdRef, uploads, es, reviews>>

\* fetch rejects, the response is not ok, or reader.read() rejects (no abort):
\* the catch block and finally.
ChatTransportErrors == {"HTTP 500: Internal Server Error"}

OnChatTransportError(t, msg) ==
  /\ turns[t].status \in {"open", "failing"}
  /\ ui' = Commit(ChatErrorUi(ui, msg))
  /\ turns' = [turns EXCEPT ![t].status = "ended", ![t].erred = TRUE]
  /\ activeChatMessageIdRef' = Null
  /\ chatAbortControllerRef' = Null
  /\ Ran("chat transport error", "")
  /\ UNCHANGED <<closureInFlight, mounted, eventSourceRef, threadIdRef, uploads, es, reviews>>

\* fetch resolves with a response that is not ok: sendChatMessageStream awaits
\* response.json() (api-client.ts 240-245).
OnChatResponseNotOk(t) ==
  /\ turns[t].status = "open"
  /\ turns[t].frames = 0
  /\ turns' = [turns EXCEPT ![t].status = "failing"]
  /\ Ran("chat response not ok", "")
  /\ UNCHANGED <<ui, closureInFlight, mounted, refs, uploads, es, reviews>>

\* The continuation of a request aborted while it read the body of a non-ok response:
\* response.json() rejects with the AbortError, the catch of api-client.ts 248 swallows
\* it, and the APIError thrown at line 252 carries the status text; it is no
\* AbortError, so the hook's catch block sets error (lines 364-369), then finally.
StatusTextError == "HTTP 500: Internal Server Error"

OnChatAbortedFailing(t) ==
  /\ turns[t].status = "aborting"
  /\ ui' = Commit(ChatErrorUi(ui, StatusTextError))
  /\ turns' = [turns EXCEPT ![t].status = "ended", ![t].erred = TRUE]
  /\ activeChatMessageIdRef' = Null
  /\ chatAbortControllerRef' = Null
  /\ Recorded("chat aborted failing", "")
  /\ UNCHANGED <<closureInFlight, mounted, eventSourceRef, threadIdRef, uploads, es, reviews>>

\* The stream ends (reader.read() reports done): sendChatMessageStream resolves;
\* lines 355-359, then finally.
\* The end of a stream that leaves the flags as they are.
StreamEndKeepingFlags(u, streamFinished) == u

StreamEndUi(u, streamFinished) == IF streamFinished THEN u ELSE ChatFlagsCleared(u)

OnChatStreamEnd(t) ==
  /\ turns[t].status = "open"
  /\ ui' = Commit(StreamEndUi(ui, turns[t].streamFinished))
  /\ turns' = [turns EXCEPT ![t].status = "ended"]
  /\ activeChatMessageIdRef' =
       IF turns[t].streamFinished THEN activeChatMessageIdRef ELSE Null
  /\ chatAbortControllerRef' = Null
  /\ Ran("chat stream end", "")
  /\ UNCHANGED <<closureInFlight, mounted, eventSourceRef, threadIdRef, uploads, es, reviews>>

\* ------------------------------------------- the chat stream decoder
\* sendChatMessageStream from `const reader = response.body.getReader()` on.
\* Bytes and characters are tokens. An ASCII byte decodes to itself, so a token may
\* stand for a run of ASCII bytes: "e" is `event:`, "d" is `data:`, "S", "D", "C" and
\* "E" are the event names chat_start, chat_delta, chat_complete and error, "{" and
\* "}" delimit a JSON object and "x" is its content. "C3" "A9" are the two bytes of
\* one character (U+00E9).
NL == "\n"
SP == " "
Whitespace == {NL, SP}
LeadByte == "C3"
ContinuationByte == "A9"
TwoByteChar == "U+00E9"
ReplacementChar == "U+FFFD"

\* TextDecoder.decode(value, {stream: true}): `held` says a lead byte is kept from
\* the chunk before. The text decoded and whether a lead byte is kept at the end.
RECURSIVE DecodeFrom(_, _, _, _)
DecodeFrom(bytes, i, held, out) ==
  IF i > Len(bytes) THEN [text |-> out, pending |-> held]
  ELSE LET b == bytes[i] IN
    IF held
      THEN IF b = ContinuationByte
             THEN DecodeFrom(bytes, i + 1, FALSE, Append(out, TwoByteChar))
             ELSE DecodeFrom(bytes, i, FALSE, Append(out, ReplacementChar))
      ELSE IF b = LeadByte THEN DecodeFrom(bytes, i + 1, TRUE, out)
      ELSE IF b = ContinuationByte
             THEN DecodeFrom(bytes, i + 1, FALSE, Append(out, ReplacementChar))
      ELSE DecodeFrom(bytes, i + 1, FALSE, Append(out, b))

\* decoder.decode(value) without {stream: true}: every chunk is decoded on its own.
DecodeEachChunkAlone(held, bytes) ==
  LET r == DecodeFrom(bytes, 1, FALSE, <<>>)
  IN [text |-> r.text \o (IF r.pending THEN <<ReplacementChar>> ELSE <<>>),
      pending |-> FALSE]

DecodeStream(held, bytes) == DecodeFrom(bytes, 1, held, <<>>)

\* decoder.decode(): the end of the stream turns a kept lead byte into U+FFFD.
DecodeFlush(held) == IF held THEN <<ReplacementChar>> ELSE <<>>

\* String.prototype.trimEnd and trim.
RECURSIVE TrimEndChars(_)
TrimEndChars(str) ==
  IF str # <<>> /\ str[Len(str)] \in Whitespace
    THEN TrimEndChars(SubSeq(str, 1, Len(str) - 1))
    ELSE str

RECURSIVE TrimStartChars(_)
TrimStartChars(str) ==
  IF str # <<>> /\ str[1] \in Whitespace THEN TrimStartChars(Tail(str)) ELSE str

TrimChars(str) == TrimStartChars(TrimEndChars(str))

\* buffer.indexOf('\n\n'), counted from 1; 0 when there is none.
BoundaryIndex(buf) ==
  LET hits == {i \in 1..(Len(buf) - 1) : buf[i] = NL /\ buf[i + 1] = NL}
  IN IF hits = {} THEN 0 ELSE CHOOSE i \in hits : \A j \in hits : i <= j

\* rawEvent.split('\n')
RECURSIVE SplitLines(_)
SplitLines(str) ==
  LET nls == {i \in 1..Len(str) : str[i] = NL}
  IN IF nls = {} THEN <<str>>
     ELSE LET i == CHOOSE n \in nls : \A m \in nls : n <= m
          IN <<SubSeq(str, 1, i - 1)>> \o SplitLines(SubSeq(str, i + 1, Len(str)))

\* dataLines.join('\n')
RECURSIVE JoinLines(_)
JoinLines(ls) ==
  IF ls = <<>> THEN <<>>
  ELSE IF Len(ls) = 1 THEN ls[1]
  ELSE ls[1] \o <<NL>> \o JoinLines(Tail(ls))

\* The loop over the lines of a frame (lines 268-282): the event name and the data
\* lines it leaves.
RECURSIVE ScanLines(_, _, _)
ScanLines(ls, eventName, dataLines) ==
  IF ls = <<>> THEN [eventName |-> eventName, dataLines |-> dataLines]
  ELSE LET line == TrimEndChars(ls[1]) IN
    IF line = <<>> \/ line[1] = ":" THEN ScanLines(Tail(ls), eventName, dataLines)
    ELSE IF line[1] = "e" THEN ScanLines(Tail(ls), TrimChars(Tail(line)), dataLines)
    ELSE IF line[1] = "d"
      THEN ScanLines(Tail(ls), eventName, Append(dataLines, TrimChars(Tail(line))))
    ELSE ScanLines(Tail(ls), eventName, dataLines)

\* JSON.parse on the model's texts: an object is "{", content free of braces and line
\* breaks, "}", with whitespace allowed around it.
IsJson(text) ==
  LET t == TrimChars(text) IN
    /\ Len(t) >= 2
    /\ t[1] = "{"
    /\ t[Len(t)] = "}"
    /\ \A i \in 2..(Len(t) - 1) : t[i] \notin {"{", "}", NL}

JsonContent(text) == LET t == TrimChars(text) IN SubSeq(t, 2, Len(t) - 1)

Call(cb, arg) == [cb |-> cb, arg |-> arg]

\* processSSEEvent (lines 263-316): the callbacks it invokes and whether it throws.
ProcessSSEEvent(rawEvent) ==
  LET scan == ScanLines(SplitLines(rawEvent), <<"message">>, <<>>)
      text == JoinLines(scan.dataLines)
      payload == JsonContent(text)
  IN IF scan.dataLines = <<>> THEN [calls |-> <<>>, thrown |-> FALSE]
     ELSE IF ~IsJson(text)
       THEN [calls |-> <<Call("onError", <<"Failed to parse stream payload">>)>>,
             thrown |-> TRUE]
     ELSE IF scan.eventName = <<"S">>
       THEN [calls |-> <<Call("onStart", payload)>>, thrown |-> FALSE]
     ELSE IF scan.eventName = <<"D">>
       THEN [calls |-> <<Call("onDelta", payload)>>, thrown |-> FALSE]
     ELSE IF scan.eventName = <<"C">>
       THEN [calls |-> <<Call("onComplete", payload)>>, thrown |-> FALSE]
     ELSE IF scan.eventName = <<"E">>
       THEN [calls |-> <<Call("onError",
                              IF payload = <<>> THEN <<"Stream error occurred">>
                                                ELSE payload)>>,
             thrown |-> TRUE]
     ELSE [calls |-> <<>>, thrown |-> FALSE]

\* The inner loop (lines 325-336): frames are cut off the front of the buffer while
\* it holds a blank line, and processed until one throws.
RECURSIVE DrainBuffer(_, _)
DrainBuffer(buf, calls) ==
  LET at == BoundaryIndex(buf) IN
    IF at = 0 THEN [buffer |-> buf, calls |-> calls, thrown |-> FALSE]
    ELSE LET rawEvent == TrimChars(SubSeq(buf, 1, at - 1))
             rest == SubSeq(buf, at + 2, Len(buf))
             got == IF rawEvent = <<>> THEN [calls |-> <<>>, thrown |-> FALSE]
                                       ELSE ProcessSSEEvent(rawEvent)
         IN IF got.thrown
              THEN [buffer |-> rest, calls |-> calls \o got.calls, thrown |-> TRUE]
              ELSE DrainBuffer(rest, calls \o got.calls)

\* One pass of the read loop on a chunk (lines 319-336).
FeedChunk(d, chunk) ==
  LET decoded == DecodeStream(d.pending, chunk)
      drained == DrainBuffer(d.buffer \o decoded.text, d.calls)
  IN [d EXCEPT !.pos = @ + Len(chunk), !.pending = decoded.pending,
               !.buffer = drained.buffer, !.calls = drained.calls,
               !.outcome = IF drained.thrown THEN "rejected" ELSE "reading"]

\* An end of stream that discards what is left in the buffer.
FinishStreamDroppingTail(d) ==
  [d EXCEPT !.pending = FALSE, !.buffer = <<>>, !.outcome = "resolved"]

\* reader.read() reports done (lines 339-342): the tail is processed once.
FinishStream(d) ==
  LET tail == TrimChars(d.buffer \o DecodeFlush(d.pending))
      got == IF tail = <<>> THEN [calls |-> <<>>, thrown |-> FALSE]
                            ELSE ProcessSSEEvent(tail)
  IN [d EXCEPT !.pending = FALSE, !.buffer = <<>>, !.calls = @ \o got.calls,
               !.outcome = IF got.thrown THEN "rejected" ELSE "resolved"]

\* The response bodies fed to the decoder: up to MaxPieces of these byte runs.
MaxPieces == 2

Pieces ==
  { <<"e", "S", NL, "d", "{", "x", "}", NL, NL>>,
    <<"e", "D", NL, "d", SP, "{", LeadByte, ContinuationByte, "}", NL, NL>>,
    <<"e", "C", NL, "d", "{", "x", "}", NL>>,
    <<"e", "E", NL, "d", "{", "}", NL, NL>>,
    <<"d", "x", NL, NL>>,
    <<":", "x", NL, NL>>,
    <<NL>>,
    <<SP>>,
    <<LeadByte>> }

RECURSIVE Bodies(_)
Bodies(n) ==
  IF n = 0 THEN {<<>>}
  ELSE LET shorter == Bodies(n - 1)
       IN shorter \cup {b \o p : b \in shorter, p \in Pieces}

StartedDecoder(body) ==
  [ input |-> body, pos |-> 0, pending |-> FALSE, buffer |-> <<>>,
    calls |-> <<>>, outcome |-> "reading", cuts |-> {} ]

InitDecode ==
  /\ InitHook
  /\ \E body \in Bodies(MaxPieces) : dec = StartedDecoder(body)

\* Where a chunk boundary fell (history): inside the two bytes of a character, or
\* between the two line breaks of a blank line.
CutKinds(input, at) ==
  IF at = 0 \/ at >= Len(input) THEN {}
  ELSE (IF input[at] = LeadByte /\ input[at + 1] = ContinuationByte
          THEN {"in character"} ELSE {})
       \cup (IF input[at] = NL /\ input[at + 1] = NL THEN {"in blank line"} ELSE {})

\* reader.read() yields the next n bytes of the body as one chunk.
ReadChunk(n) ==
  /\ dec.outcome = "reading"
  /\ dec.pos + n <= Len(dec.input)
  /\ dec' = [FeedChunk(dec, SubSeq(dec.input, dec.pos + 1, dec.pos + n))
               EXCEPT !.cuts = @ \cup CutKinds(dec.input, dec.pos + n)]
  /\ UNCHANGED <<ui, closureInFlight, mounted, refs, procs, last>>

ReadDone ==
  /\ dec.outcome = "reading"
  /\ dec.pos = Len(dec.input)
  /\ dec' = FinishStream(dec)
  /\ UNCHANGED <<ui, closureInFlight, mounted, refs, procs, last>>

NextDecode ==
  \/ \E n \in 1..(Len(dec.input) - dec.pos) : ReadChunk(n)
  \/ ReadDone

SpecDecode == InitDecode /\ [][NextDecode]_vars

\* ------------------------------------------------- claims on the session
\* The transitions of the state table (spec section 4.2).
StateTable ==
  { <<"idle", "uploading">>, <<"uploading", "thinking">>, <<"uploading", "idle">>,
    <<"thinking", "verdict">>, <<"thinking", "idle">>, <<"verdict", "generating">>,
    <<"generating", "complete">>, <<"generating", "verdict">>,
    <<"verdict", "complete">> }

\* C1: every change of `state` that is not made by reset is a transition of the
\* state table.
C1_OnlyTableTransitions ==
  [][(state' # state /\ last'.op # "reset") => <<state, state'>> \in StateTable]_vars

\* C2: at most one chat request started by sendChatMessage is open at any time.
C2_AtMostOneChatInFlight == Cardinality(OpenTurns) <= 1

\* C3: a chat turn whose request has ended has exactly one outcome: its assistant
\* entry was finalized by chat_complete, it set lastError, or it was cancelled.
Outcomes(t) ==
  (IF turns[t].finalized THEN {"finalized"} ELSE {})
    \cup (IF turns[t].erred THEN {"lastError"} ELSE {})
    \cup (IF turns[t].cancelled THEN {"cancelled"} ELSE {})

C3_TerminalExclusivity ==
  \A t \in TurnIds : turns[t].status = "ended" => Cardinality(Outcomes(t)) = 1

\* What reset leaves behind.
ResetPost ==
  /\ state = "idle" /\ thinkingLogs = <<>> /\ chatMessages = <<>> /\ messages = <<>>
  /\ verdictData = Null /\ gammaLink = Null /\ error = Null
  /\ threadIdRef = Null /\ eventSourceRef = Null

\* C4: reset is enabled in every state of the mounted hook, and a reset yields idle
\* with empty progressLog, transcript and upload messages, null verdict, artifactLink,
\* lastError and threadId, the stream handle it held closed and released.
C4_ResetYieldsIdle ==
  [][ /\ mounted => ENABLED Reset
      /\ last'.op = "reset" =>
           /\ ResetPost'
           /\ eventSourceRef # Null => es'[eventSourceRef[1]].status = "closed" ]_vars

\* C4 witness: a reset ran while the analysis stream was open, and left it closed.
C4_Witness ==
  /\ last.op = "reset" /\ last.note = "stream open"
  /\ ResetPost
  /\ \E k \in UploadIds : es[k].status = "closed"

\* C5: after a reset and until the next uploadFiles call the session stays idle with
\* null threadId, no open analysis stream and empty collections.
C5_QuietAfterReset ==
  last.afterReset =>
    /\ state = "idle" /\ threadIdRef = Null
    /\ thinkingLogs = <<>> /\ chatMessages = <<>> /\ messages = <<>>
    /\ eventSourceRef = Null
    /\ \A k \in UploadIds : es[k].status # "open"

\* C6: a reset or teardown aborts every chat request that is open, so that no event
\* of a turn started before it can reach the hook afterwards (only an open request
\* dispatches events).
C6_ResetCancelsChat ==
  last.op \in {"reset", "unmount"} => OpenTurns = {}

\* C7: a non-null threadId changes only to null, and only by reset.
C7_ThreadIdNeverReassigned ==
  [][threadIdRef # Null =>
       \/ threadIdRef' = threadIdRef
       \/ threadIdRef' = Null /\ last'.op = "reset"]_vars

\* C8: the ids of progressLog are pairwise distinct, and a thinking_log event whose
\* id progressLog already holds leaves progressLog as it is and raises no error.
DistinctLogIds(logs) ==
  \A i, j \in 1..Len(logs) : logs[i].id = logs[j].id => i = j

C8_IdempotentIngestion ==
  [][ /\ DistinctLogIds(thinkingLogs')
      /\ \A k \in UploadIds, log \in ThinkingLogEvents :
           (OnThinkingLog(k, log) /\ HasLogId(thinkingLogs, log.id)) =>
              (thinkingLogs' = thinkingLogs /\ error' = error /\ state' = state) ]_vars

\* C8 witness: a redelivered id was dropped from a log of two entries.
C8_Witness ==
  /\ last.op = "thinking_log" /\ last.note = "duplicate"
  /\ Len(thinkingLogs) = 2

\* C10: a chat_delta or chat_complete event whose message id is not the active id
\* changes no transcript entry and sets no lastError.
C10_StaleEventsDiscarded ==
  [][ \A t \in TurnIds :
        (/\ activeChatMessageIdRef # MessageIdOf(t)
         /\ OnChatComplete(t) \/ \E delta \in Deltas : OnChatDelta(t, delta))
        => (chatMessages' = chatMessages /\ error' = error) ]_vars

\* C10 witness: a delta arrived for a turn whose id is no longer active (the active
\* id is null) while the transcript holds text.
C10_Witness ==
  /\ last.op = "chat_delta" /\ last.note = "stale"
  /\ activeChatMessageIdRef = Null
  /\ chatMessages # <<>>

\* C11: on the mounted hook, a chat_complete event whose message id is the active id
\* leaves exactly one transcript entry with that id, with the event's response as its
\* content and the event's timestamp, whatever deltas were accumulated; every other
\* entry is kept; the active id is cleared, the in-flight flags are cleared and
\* lastError is unchanged.
EntriesOf(msgs, id) == {i \in 1..Len(msgs) : msgs[i].id = id}

C11_CompleteIsAuthoritative ==
  [][ \A t \in TurnIds :
        (mounted /\ activeChatMessageIdRef = MessageIdOf(t) /\ OnChatComplete(t)) =>
          /\ Cardinality(EntriesOf(chatMessages', MessageIdOf(t))) = 1
          /\ \A i \in EntriesOf(chatMessages', MessageIdOf(t)) :
                /\ chatMessages'[i].content = FinalResponse
                /\ chatMessages'[i].timestamp = ServerTimestamp
          /\ \A i \in 1..Len(chatMessages) :
                chatMessages[i].id # MessageIdOf(t) => chatMessages'[i] = chatMessages[i]
          /\ activeChatMessageIdRef' = Null
          /\ ~isChatInFlight' /\ ~isChatLoading'
          /\ error' = error ]_vars

\* C11 witness: a chat_complete replaced the text accumulated from deltas by the
\* final response.
C11_Witness ==
  /\ last.op = "chat_complete" /\ last.note = "replaced"
  /\ mounted
  /\ \E i \in 1..Len(chatMessages) :
       /\ chatMessages[i].role = "assistant"
       /\ chatMessages[i].content = FinalResponse
       /\ chatMessages[i].timestamp = ServerTimestamp

\* C12: a chat turn whose response stream ended before a chat_complete or error
\* frame was dispatched, and that was not cancelled, has set lastError.
C12_NoSilentTruncation ==
  \A t \in TurnIds :
    (turns[t].status = "ended" /\ ~turns[t].terminalFrame /\ ~turns[t].cancelled)
      => turns[t].erred

\* C13: a chat turn that was cancelled (its request aborted by reset or teardown)
\* has not set lastError.
C13_CancellationIsSilent ==
  \A t \in TurnIds : turns[t].cancelled => ~turns[t].erred

\* C14: when an upload request is rejected while the mounted hook is in `uploading`
\* with no threadId (a fresh session), the state becomes `idle`, lastError is non-null,
\* threadId stays null, and no analysis stream is opened or held.
C14_UploadFailure ==
  [][ \A k \in UploadIds, msg \in UploadErrors :
        (mounted /\ state = "uploading" /\ threadIdRef = Null /\ UploadFailed(k, msg)) =>
          /\ state' = "idle"
          /\ error' # Null
          /\ threadIdRef' = Null
          /\ es' = es /\ es[k].status = "none"
          /\ eventSourceRef' = eventSourceRef ]_vars

\* C14 witness: the only upload of the session failed while the state was `uploading`.
C14_Witness ==
  /\ last.op = "upload failed" /\ last.note = "while uploading"
  /\ state = "idle" /\ error = Some("HTTP 500: Internal Server Error")
  /\ threadIdRef = Null /\ eventSourceRef = Null
  /\ \A k \in UploadIds : es[k].status = "none"
  /\ Cardinality({k \in UploadIds : uploads[k] = "done"}) = 1
  /\ Cardinality(FreeUploads) = MaxUploads - 1

\* C15: on the mounted hook, if every upload request and every review request that
\* was issued completes (the fairness of SpecTransient), then a state `uploading` is
\* always left eventually and a state `generating` is always left eventually.
C15_NeverStuck ==
  /\ (mounted /\ state = "uploading") ~> (~mounted \/ state # "uploading")
  /\ (mounted /\ state = "generating") ~> (~mounted \/ state # "generating")

\* C15 witness: a generateReport request failed while the state was `generating`, and
\* the state went back to `verdict`.
C15_Witness ==
  /\ last.op = "review failed" /\ last.note = "while generating"
  /\ mounted /\ state = "verdict" /\ error # Null

\* C16: at most one analysis stream is open, and an open stream is the one whose
\* handle the hook holds.
OpenStreams == {k \in UploadIds : es[k].status = "open"}

C16_OneAnalysisStream ==
  /\ Cardinality(OpenStreams) <= 1
  /\ \A k \in OpenStreams : eventSourceRef = Some(k)

\* C17: each of uploadFiles, generateReport, declineReport and sendChatMessage, when
\* it starts (the call is accepted and issues its request), leaves lastError null.
C17_ErrorClearedAtStart ==
  [][ (last'.note = "started"
       /\ last'.op \in {"uploadFiles", "submitReview", "sendChatMessage"})
      => error' = Null ]_vars

\* C18: uploadFiles with an empty file list changes none of state, threadId,
\* progressLog, verdict, transcript and upload messages, and starts no upload request
\* and no analysis stream.
C18_EmptyUploadRejected ==
  [][ UploadFiles(0) =>
        /\ state' = state /\ threadIdRef' = threadIdRef
        /\ thinkingLogs' = thinkingLogs /\ verdictData' = verdictData
        /\ chatMessages' = chatMessages /\ messages' = messages
        /\ uploads' = uploads /\ es' = es /\ eventSourceRef' = eventSourceRef ]_vars

\* C18 witness: an empty upload was rejected in a session that holds a verdict.
C18_Witness ==
  /\ last.op = "uploadFiles" /\ last.note = "no files"
  /\ state = "verdict" /\ messages # <<>> /\ chatMessages # <<>>
  /\ threadIdRef # Null
  /\ error = Some("No PDF files selected")

\* C19: whenever the state is `idle`, threadId is null.
C19_IdleHasNoThread == state = "idle" => threadIdRef = Null

\* C20: every step other than reset keeps the previous progressLog as a prefix of the
\* new one; a thinking_log event with a new id puts its entry last, and one with an id
\* already held changes nothing.
IsPrefix(a, b) == Len(a) <= Len(b) /\ SubSeq(b, 1, Len(a)) = a

C20_AppendOnlyInArrivalOrder ==
  [][ /\ last'.op # "reset" => IsPrefix(thinkingLogs, thinkingLogs')
      /\ \A k \in UploadIds, log \in ThinkingLogEvents :
           (mounted /\ OnThinkingLog(k, log)) =>
              thinkingLogs' = IF HasLogId(thinkingLogs, log.id)
                                THEN thinkingLogs
                                ELSE Append(thinkingLogs, log) ]_vars

\* C20 witness: the log holds id 2 before id 1 (arrival order), and a redelivery of an
\* id was just dropped.
C20_Witness ==
  /\ last.op = "thinking_log" /\ last.note = "duplicate"
  /\ Len(thinkingLogs) = 2
  /\ thinkingLogs[1].id = 2 /\ thinkingLogs[2].id = 1

\* C21: on the mounted hook, a verdict event received in `thinking` stores the
\* verdict, sets the state to `verdict` and appends exactly one assistant entry, whose
\* text carries the verdict's status and confidence and the non-empty categories among
\* the first two findings, in their order, and no other category.
NamedCategories(verdict) ==
  {verdict.findings[i] : i \in {j \in 1..Len(verdict.findings) : j <= 2}} \ {""}

C21_VerdictIntroduced ==
  [][ \A k \in UploadIds, v \in Verdicts :
        (mounted /\ state = "thinking" /\ OnVerdict(k, v)) =>
          /\ verdictData' = Some(v)
          /\ state' = "verdict"
          /\ Len(chatMessages') = Len(chatMessages) + 1
          /\ SubSeq(chatMessages', 1, Len(chatMessages)) = chatMessages
          /\ LET entry == chatMessages'[Len(chatMessages')]
                 named == entry.content.topCategories
             IN /\ entry.role = "assistant"
                /\ entry.content.status = v.status
                /\ entry.content.confidence = v.confidence
                /\ Len(named) <= 2
                /\ {named[i] : i \in 1..Len(named)} = NamedCategories(v)
                /\ \A i, j \in 1..Len(named) : i < j =>
                      \E a, b \in 1..2 : a < b /\ v.findings[a] = named[i]
                                              /\ v.findings[b] = named[j] ]_vars

\* C21 witness: the end of the happy path: one upload, two thinking_log events, one
\* verdict, then complete: state `verdict`, two log entries, one synthesized entry
\* naming "Budget".
C21_Witness ==
  /\ last.op = "complete"
  /\ state = "verdict" /\ error = Null
  /\ Len(thinkingLogs) = 2
  /\ verdictData # Null
  /\ Len(chatMessages) = 1
  /\ chatMessages[1].role = "assistant"
  /\ chatMessages[1].content.topCategories = <<"Budget">>
  /\ Cardinality(FreeUploads) = MaxUploads - 1

\* C22: on the mounted hook, generateReport called with a threadId sets the state to
\* `generating` and issues one review request with generate = TRUE; when that request
\* succeeds the state becomes `complete` and artifactLink takes the link of the
\* response if it has one (else it is kept); when it fails lastError is set, the state
\* becomes `verdict` and the stored verdict is unchanged.
PendingReviews(rs, generate) ==
  {r \in ReviewIds : rs[r] = [status |-> "pending", generate |-> generate]}

C22_GenerateArtifact ==
  [][ /\ (mounted /\ threadIdRef # Null /\ generateReport) =>
           /\ state' = "generating"
           /\ Cardinality(PendingReviews(reviews', TRUE))
                = Cardinality(PendingReviews(reviews, TRUE)) + 1
           /\ PendingReviews(reviews', FALSE) = PendingReviews(reviews, FALSE)
      /\ \A r \in ReviewIds :
           (mounted /\ reviews[r].status = "pending" /\ reviews[r].generate) =>
             /\ \A link \in {Some(l) : l \in Links} \cup {Null} :
                  ReviewSucceeded(r, link) =>
                    /\ state' = "complete"
                    /\ gammaLink' = IF link # Null THEN link ELSE gammaLink
                    /\ error' = error
             /\ \A msg \in ReviewErrors :
                  ReviewFailed(r, msg) =>
                    /\ error' = Some(msg)
                    /\ state' = "verdict"
                    /\ verdictData' = verdictData ]_vars

\* C22 witness: a generateReport request succeeded with a link, which is stored.
C22_Witness ==
  /\ last.op = "review ok" /\ last.note = "generate"
  /\ state = "complete" /\ gammaLink = Some("https://gamma.app/docs/1")
  /\ verdictData # Null

\* C24: on the mounted hook, declineReport called with a threadId issues one review
\* request with generate = FALSE and leaves the state as it is; when that request
\* succeeds the state becomes `complete`; when it fails lastError is set and state,
\* verdict, artifactLink and transcript are unchanged.
C24_DeclineArtifact ==
  [][ /\ (mounted /\ threadIdRef # Null /\ declineReport) =>
           /\ state' = state
           /\ Cardinality(PendingReviews(reviews', FALSE))
                = Cardinality(PendingReviews(reviews, FALSE)) + 1
           /\ PendingReviews(reviews', TRUE) = PendingReviews(reviews, TRUE)
      /\ \A r \in ReviewIds :
           (mounted /\ reviews[r].status = "pending" /\ ~reviews[r].generate) =>
             /\ \A link \in {Some(l) : l \in Links} \cup {Null} :
                  ReviewSucceeded(r, link) => state' = "complete"
             /\ \A msg \in ReviewErrors :
                  ReviewFailed(r, msg) =>
                    /\ error' = Some(msg)
                    /\ state' = state /\ verdictData' = verdictData
                    /\ gammaLink' = gammaLink /\ chatMessages' = chatMessages ]_vars

\* C24 witness: a declineReport request failed in a session that is still `thinking`.
C24_Witness ==
  /\ last.op = "review failed" /\ last.note = "decline"
  /\ state = "thinking" /\ error = Some("HTTP 500: Internal Server Error")

\* C23: on the mounted hook, each of generateReport, declineReport and sendChatMessage
\* called while threadId is null sets lastError and changes nothing else: the other
\* state cells (state and transcript among them), the refs and the requests are as
\* before, so no request is started.
C23_FailFastWithoutThread ==
  [][ (/\ mounted /\ threadIdRef = Null
       /\ generateReport \/ declineReport \/ \E text \in ChatTexts : sendChatMessage(text))
      => /\ error' = Some("No analysis session found")
         /\ ui' = [ui EXCEPT !.error = error']
         /\ UNCHANGED <<refs, procs>> ]_vars

\* C23 witness: sendChatMessage was refused for want of a threadId while an upload
\* was in flight.
C23_Witness ==
  /\ last.op = "sendChatMessage" /\ last.note = "no session"
  /\ state = "uploading" /\ threadIdRef = Null
  /\ error = Some("No analysis session found")
  /\ OpenTurns = {}

\* C25: on the mounted hook, once all handlers of a server-pushed `error` event have
\* run, lastError is the message of the payload when it carries one and a generic
\* message when it carries none or does not parse, the state is `idle` and the stream
\* is closed.
GenericStreamErrors ==
  {"Stream error occurred", "Connection error occurred", "Connection to server lost"}

C25_ServerErrorMessageKept ==
  [][ \A k \in UploadIds :
        /\ (mounted /\ OnStreamError(k, "server message")) =>
             /\ error' = Some("Analysis failed")
             /\ state' = "idle" /\ es'[k].status = "closed"
        /\ \A kind \in {"server no message", "malformed"} :
             (mounted /\ OnStreamError(k, kind)) =>
               /\ error' # Null /\ error'[1] \in GenericStreamErrors
               /\ state' = "idle" /\ es'[k].status = "closed" ]_vars

\* C26: on the mounted hook, a thinking_log or verdict event whose data does not parse
\* closes the stream and sets lastError.
C26_MalformedPayloadIsFatal ==
  [][ \A k \in UploadIds, name \in {"thinking_log", "verdict"} :
        (mounted /\ OnMalformedEvent(k, name)) =>
          /\ error' # Null
          /\ es'[k].status = "closed" ]_vars

\* C27: on the mounted hook, an accepted sendChatMessage appends the user turn to the
\* transcript in the step that opens the request, and every step other than reset
\* keeps every user turn of the transcript at its position.
C27_UserTurnKept ==
  [][ /\ \A text \in ChatTexts :
           (mounted /\ sendChatMessage(text) /\ last'.note = "started") =>
             /\ Len(chatMessages') = Len(chatMessages) + 1
             /\ SubSeq(chatMessages', 1, Len(chatMessages)) = chatMessages
             /\ chatMessages'[Len(chatMessages')].role = "user"
             /\ chatMessages'[Len(chatMessages')].content = text
             /\ Cardinality(OpenTurns') = Cardinality(OpenTurns) + 1
      /\ last'.op # "reset" =>
           \A i \in 1..Len(chatMessages) :
             chatMessages[i].role = "user" =>
               Len(chatMessages') >= i /\ chatMessages'[i] = chatMessages[i] ]_vars

\* C27 witness: the turn ended by an error frame and its user turn is still the last
\* entry of the transcript.
C27_Witness ==
  /\ last.op = "chat error frame"
  /\ mounted /\ error # Null
  /\ chatMessages # <<>>
  /\ chatMessages[Len(chatMessages)].role = "user"

\* C28: a sendChatMessage call made while a chat turn is in flight (isChatInFlight is
\* set) has no effect: transcript, requests, refs and lastError are as before.
C28_RejectIfBusy ==
  [][ \A text \in ChatTexts :
        (mounted /\ threadIdRef # Null /\ isChatInFlight /\ sendChatMessage(text)) =>
          /\ chatMessages' = chatMessages
          /\ turns' = turns
          /\ chatAbortControllerRef' = chatAbortControllerRef
          /\ activeChatMessageIdRef' = activeChatMessageIdRef
          /\ error' = error ]_vars

\* C30: on the mounted hook, a chat frame that does not parse or an `error` frame
\* sets lastError to its message, ends the in-flight turn and clears the active id;
\* and no frame is dispatched to a request after such a frame.
C30_ErrorFrameIsTerminal ==
  [][ /\ \A t \in TurnIds, msg \in ChatFrameErrors :
           (mounted /\ OnChatErrorFrame(t, msg)) =>
             /\ error' = Some(msg)
             /\ ~isChatInFlight'
             /\ activeChatMessageIdRef' = Null
      /\ \A t \in TurnIds :
           turns[t].erred => turns'[t].frames = turns[t].frames ]_vars

\* C30 witness: a frame that does not parse arrived after deltas had been shown.
C30_Witness ==
  /\ last.op = "chat error frame"
  /\ mounted
  /\ error = Some("Failed to parse stream payload")
  /\ ~isChatInFlight /\ activeChatMessageIdRef = Null
  /\ \E t \in TurnIds : turns[t].erred /\ turns[t].frames >= 2

\* A chat_delta for the active id that finds no transcript entry with that id.
FirstLiveDelta(t, delta) ==
  /\ mounted
  /\ OnChatDelta(t, delta)
  /\ ~IsStale(activeChatMessageIdRef, MessageIdOf(t))
  /\ ~HasChatId(chatMessages, MessageIdOf(t))

\* The transcript with an assistant entry of that id and text added at its end.
WithCreatedEntry(msgs, message_id, delta) ==
  /\ Len(chatMessages') = Len(msgs) + 1
  /\ SubSeq(chatMessages', 1, Len(msgs)) = msgs
  /\ chatMessages'[Len(msgs) + 1].id = message_id
  /\ chatMessages'[Len(msgs) + 1].role = "assistant"
  /\ chatMessages'[Len(msgs) + 1].content = delta

ContentOf(msgs, id) ==
  IF HasChatId(msgs, id) THEN msgs[CHOOSE i \in EntriesOf(msgs, id) : TRUE].content ELSE ""

\* C32: on the mounted hook, every chat_delta received for the active message id
\* extends the content of that id's assistant entry by its text (so that the content
\* is the concatenation of the deltas in arrival order) and changes no other entry.
C32_DeltasConcatenated ==
  [][ \A t \in TurnIds, delta \in Deltas :
        ( /\ mounted
          /\ OnChatDelta(t, delta)
          /\ ~IsStale(activeChatMessageIdRef, MessageIdOf(t)) ) =>
          /\ ContentOf(chatMessages', MessageIdOf(t))
               = ContentOf(chatMessages, MessageIdOf(t)) \o delta
          /\ \A i \in 1..Len(chatMessages) :
               chatMessages[i].id # MessageIdOf(t) => chatMessages'[i] = chatMessages[i] ]_vars

\* C33: a closed analysis stream stays closed whatever closes it again, and once the
\* `error` listener has handled an error event and closed the stream, the session
\* is as that listener left it: no later handler invocation changes it.
C33_CloseIsFinal ==
  [][ /\ \A k \in UploadIds : es[k].status = "closed" => es'[k].status = "closed"
      /\ \A k \in UploadIds, kind \in StreamErrorKinds :
           (mounted /\ OnStreamError(k, kind)) =>
             ui' = OnStreamErrorUi(ui, ErrorListenerMessage(kind)) ]_vars

\* C34: once the unmount cleanup has run, no analysis stream and no chat request
\* is open.
C34_TeardownLeaksNothing ==
  ~mounted => (OpenStreams = {} /\ OpenTurns = {})

\* C35: whenever the session state is `verdict`, a verdict is stored.
C35_VerdictStored ==
  state = "verdict" => verdictData # Null

\* C36: whenever the session state is `thinking`, `verdict`, `generating` or
\* `complete`, the thread id is set.
C36_ThreadKnown ==
  state \in {"thinking", "verdict", "generating", "complete"} => threadIdRef # Null

\* C37: an uploadFiles call that moves the session from `idle` to `uploading` leaves
\* the progress log and the transcript empty and the verdict and the link null.
C37_CleanStart ==
  [][ \A n \in FileCounts :
        (mounted /\ state = "idle" /\ UploadFiles(n) /\ state' = "uploading") =>
          /\ thinkingLogs' = <<>> /\ chatMessages' = <<>>
          /\ verdictData' = Null /\ gammaLink' = Null ]_vars

\* C38: on the mounted hook, isChatInFlight and isChatLoading are set only while a
\* request of an accepted sendChatMessage call has yet to end (so they are false once
\* the requests have ended), and only an accepted sendChatMessage call sets them.
C38_BusyFlagsNotStuck ==
  [][ /\ (mounted' /\ (isChatInFlight' \/ isChatLoading')) => OpenTurns' # {}
      /\ ( \/ (~isChatInFlight /\ isChatInFlight')
           \/ (~isChatLoading /\ isChatLoading') ) =>
           (last'.op = "sendChatMessage" /\ last'.note = "started") ]_vars

\* C38 witness: a request ended with its stream and without chat_complete, and the
\* flags are clear with no request left.
C38_Witness ==
  /\ mounted /\ last.op = "chat stream end"
  /\ OpenTurns = {}
  /\ ~isChatInFlight /\ ~isChatLoading
  /\ \E t \in TurnIds : turns[t].status = "ended" /\ ~turns[t].finalized /\ turns[t].frames >= 1

\* A step of the chat side: a sendChatMessage call, a frame of a chat stream, or
\* the end of a chat request.
ChatStep ==
  \/ \E text \in ChatTexts : sendChatMessage(text)
  \/ \E t \in TurnIds : OnChatStart(t)
  \/ \E t \in TurnIds, delta \in Deltas : OnChatDelta(t, delta)
  \/ \E t \in TurnIds : OnChatComplete(t)
  \/ \E t \in TurnIds, msg \in ChatFrameErrors : OnChatErrorFrame(t, msg)
  \/ \E t \in TurnIds, msg \in ChatTransportErrors : OnChatTransportError(t, msg)
  \/ \E t \in TurnIds : OnChatStreamEnd(t)
  \/ \E t \in TurnIds : OnChatResponseNotOk(t)
  \/ \E t \in TurnIds : OnChatAbortedFailing(t)

\* C39: no step of the chat side changes the session state, the thread id, the
\* progress log, the verdict, the link or a pending review request.
C39_ChatLeavesAnalysisAlone ==
  [][ ChatStep =>
        /\ state' = state /\ threadIdRef' = threadIdRef
        /\ thinkingLogs' = thinkingLogs /\ verdictData' = verdictData
        /\ gammaLink' = gammaLink /\ reviews' = reviews ]_vars

\* C39 witness: a chat turn completed while generateReport's request was pending,
\* and the session is still `generating` with its verdict.
C39_Witness ==
  /\ mounted /\ last.op = "chat_complete" /\ last.note # "stale"
  /\ state = "generating" /\ verdictData # Null /\ threadIdRef # Null
  /\ \E r \in ReviewIds : reviews[r].status = "pending" /\ reviews[r].generate

\* ------------------------------------------------ claims on the decoder
\* The whole body delivered as one chunk, then the end of the stream.
WholeRun(body) ==
  LET fed == IF body = <<>> THEN StartedDecoder(body)
                            ELSE FeedChunk(StartedDecoder(body), body)
  IN IF fed.outcome = "rejected" THEN fed ELSE FinishStream(fed)

\* C9: however the body is split into chunks, once sendChatMessageStream has ended it
\* has invoked the same callbacks with the same payloads in the same order, and ended
\* the same way (resolved or rejected), as when the body arrives as one chunk.
C9_ChunkBoundaryInvariance ==
  dec.outcome # "reading" =>
    /\ dec.calls = WholeRun(dec.input).calls
    /\ dec.outcome = WholeRun(dec.input).outcome

\* C9 witness: a run that ended after chunk boundaries fell inside a two-byte
\* character and inside a blank line, and that dispatched a delta carrying the character.
C9_Witness ==
  /\ dec.outcome = "resolved"
  /\ dec.cuts = {"in character", "in blank line"}
  /\ \E i \in 1..Len(dec.calls) :
       dec.calls[i] = Call("onDelta", <<TwoByteChar>>)

\* The text of a whole body, and its frames: the runs between blank lines, the last
\* of them being what follows the last blank line.
DecodedBody(body) ==
  LET decoded == DecodeStream(FALSE, body) IN decoded.text \o DecodeFlush(decoded.pending)

RECURSIVE FramesOf(_)
FramesOf(text) ==
  LET at == BoundaryIndex(text) IN
    IF at = 0 THEN <<TrimChars(text)>>
    ELSE <<TrimChars(SubSeq(text, 1, at - 1))>> \o FramesOf(SubSeq(text, at + 2, Len(text)))

DataLinesOf(frame) == ScanLines(SplitLines(frame), <<"message">>, <<>>).dataLines

EventNameOf(frame) == ScanLines(SplitLines(frame), <<"message">>, <<>>).eventName

KnownEventNames == {<<"S">>, <<"D">>, <<"C">>, <<"E">>}

\* The callbacks of the frames from the i-th on, frame by frame, up to and including
\* the first frame that ends the stream with an error.
RECURSIVE CallsFrom(_, _)
CallsFrom(frames, i) ==
  IF i > Len(frames) THEN <<>>
  ELSE IF frames[i] = <<>> THEN CallsFrom(frames, i + 1)
  ELSE LET got == ProcessSSEEvent(frames[i])
       IN IF got.thrown THEN got.calls ELSE got.calls \o CallsFrom(frames, i + 1)

\* C29: a frame with data lines and a known event name dispatches exactly one
\* callback and a frame with no data lines none; while the stream is read the
\* callbacks dispatched so far are a prefix of the frames' callbacks in stream order,
\* and once it has ended they are exactly those, the frame after the last blank line
\* included once.
C29_OneCallbackPerFrame ==
  LET frames == FramesOf(DecodedBody(dec.input)) IN
    /\ \A i \in 1..Len(frames) :
         /\ (DataLinesOf(frames[i]) # <<>> /\ EventNameOf(frames[i]) \in KnownEventNames)
              => Len(ProcessSSEEvent(frames[i]).calls) = 1
         /\ DataLinesOf(frames[i]) = <<>> => ProcessSSEEvent(frames[i]).calls = <<>>
    /\ IsPrefix(dec.calls, CallsFrom(frames, 1))
    /\ dec.outcome # "reading" => dec.calls = CallsFrom(frames, 1)

\* C29 witness: a stream that ended without error after a comment frame, whose
\* last frame had no blank line after it and was dispatched on close.
C29_Witness ==
  /\ dec.outcome = "resolved"
  /\ dec.input = <<":", "x", NL, NL, "e", "C", NL, "d", "{", "x", "}", NL>>
  /\ dec.calls = <<Call("onComplete", <<"x">>)>>

\* ------------------------------------------------------------------- next
\* The hook's own operations and its analysis side: uploads, the analysis stream's
\* events, the review requests, reset and teardown.
NextAnalysis ==
  \/ Reset
  \/ Unmount
  \/ \E n \in FileCounts : UploadFiles(n)
  \/ \E k \in UploadIds : UploadSucceeded(k)
  \/ \E k \in UploadIds, msg \in UploadErrors : UploadFailed(k, msg)
  \/ \E k \in UploadIds, log \in ThinkingLogEvents : OnThinkingLog(k, log)
  \/ \E k \in UploadIds, v \in Verdicts : OnVerdict(k, v)
  \/ \E k \in UploadIds : OnStreamComplete(k)
  \/ \E k \in UploadIds, link \in Links : OnGammaLink(k, link)
  \/ \E k \in UploadIds, name \in MalformedEvents : OnMalformedEvent(k, name)
  \/ \E k \in UploadIds, kind \in StreamErrorKinds : OnStreamError(k, kind)
  \/ generateReport
  \/ declineReport
  \/ \E r \in ReviewIds, link \in {Some(l) : l \in Links} \cup {Null} : ReviewSucceeded(r, link)
  \/ \E r \in ReviewIds, msg \in ReviewErrors : ReviewFailed(r, msg)

\* The chat side: one analysis session is opened, then chat turns run against it.
FirstUpload == FreeUploads = UploadIds /\ UploadFiles(1)

NextChat ==
  \/ Reset
  \/ Unmount
  \/ Render
  \/ FirstUpload
  \/ \E k \in UploadIds : UploadSucceeded(k)
  \/ \E text \in ChatTexts : sendChatMessage(text)
  \/ \E t \in TurnIds : OnChatStart(t)
  \/ \E t \in TurnIds, delta \in Deltas : OnChatDelta(t, delta)
  \/ \E t \in TurnIds : OnChatComplete(t)
  \/ \E t \in TurnIds, msg \in ChatFrameErrors : OnChatErrorFrame(t, msg)
  \/ \E t \in TurnIds, msg \in ChatTransportErrors : OnChatTransportError(t, msg)
  \/ \E t \in TurnIds : OnChatStreamEnd(t)
  \/ \E t \in TurnIds : OnChatResponseNotOk(t)
  \/ \E t \in TurnIds : OnChatAbortedFailing(t)

\* The operations that set or leave the transient states, with every request that
\* was issued completing eventually (a response or a rejection).
NextTransient ==
  \/ Reset
  \/ Unmount
  \/ \E n \in FileCounts : UploadFiles(n)
  \/ \E k \in UploadIds : UploadSucceeded(k)
  \/ \E k \in UploadIds, msg \in UploadErrors : UploadFailed(k, msg)
  \/ \E k \in UploadIds, v \in Verdicts : OnVerdict(k, v)
  \/ \E k \in UploadIds : OnStreamComplete(k)
  \/ \E k \in UploadIds, kind \in StreamErrorKinds : OnStreamError(k, kind)
  \/ generateReport
  \/ declineReport
  \/ \E r \in ReviewIds, link \in {Some(l) : l \in Links} \cup {Null} : ReviewSucceeded(r, link)
  \/ \E r \in ReviewIds, msg \in ReviewErrors : ReviewFailed(r, msg)

UploadCompletes(k) ==
  UploadSucceeded(k) \/ \E msg \in UploadErrors : UploadFailed(k, msg)

ReviewCompletes(r) ==
  \/ \E link \in {Some(l) : l \in Links} \cup {Null} : ReviewSucceeded(r, link)
  \/ \E msg \in ReviewErrors : ReviewFailed(r, msg)

SpecTransient ==
  /\ Init /\ [][NextTransient]_vars
  /\ \A k \in UploadIds : WF_vars(UploadCompletes(k))
  /\ \A r \in ReviewIds : WF_vars(ReviewCompletes(r))

\* One upload, then the three operations that need its threadId, with the completions
\* of their requests.
NextOperations ==
  \/ Reset
  \/ Unmount
  \/ Render
  \/ FirstUpload
  \/ \E k \in UploadIds : UploadSucceeded(k)
  \/ \E k \in UploadIds, msg \in UploadErrors : UploadFailed(k, msg)
  \/ generateReport
  \/ declineReport
  \/ \E r \in ReviewIds, link \in {Some(l) : l \in Links} \cup {Null} : ReviewSucceeded(r, link)
  \/ \E r \in ReviewIds, msg \in ReviewErrors : ReviewFailed(r, msg)
  \/ \E text \in ChatTexts : sendChatMessage(text)
  \/ \E t \in TurnIds, msg \in ChatTransportErrors : OnChatTransportError(t, msg)
  \/ \E t \in TurnIds : OnChatStreamEnd(t)

SpecOperations == Init /\ [][NextOperations]_vars

\* One analysis up to its review, with chat turns running beside it.
NextConcurrent ==
  \/ Render
  \/ FirstUpload
  \/ \E k \in UploadIds : UploadSucceeded(k)
  \/ \E k \in UploadIds, v \in Verdicts : OnVerdict(k, v)
  \/ generateReport
  \/ \E r \in ReviewIds, link \in {Some(l) : l \in Links} \cup {Null} : ReviewSucceeded(r, link)
  \/ \E r \in ReviewIds, msg \in ReviewErrors : ReviewFailed(r, msg)
  \/ \E text \in ChatTexts : sendChatMessage(text)
  \/ \E t \in TurnIds : OnChatStart(t)
  \/ \E t \in TurnIds, delta \in Deltas : OnChatDelta(t, delta)
  \/ \E t \in TurnIds : OnChatComplete(t)
  \/ \E t \in TurnIds, msg \in ChatFrameErrors : OnChatErrorFrame(t, msg)
  \/ \E t \in TurnIds, msg \in ChatTransportErrors : OnChatTransportError(t, msg)
  \/ \E t \in TurnIds : OnChatStreamEnd(t)

SpecConcurrent == Init /\ [][NextConcurrent]_vars

Next == NextAnalysis \/ NextChat

Spec == Init /\ [][Next]_vars
SpecAnalysis == Init /\ [][NextAnalysis]_vars
SpecChat == Init /\ [][NextChat]_vars

====
